---- MODULE Spec2Model ----
(***************************************************************************)
(* Bootstrap of the dependency-injection core: the module scanner          *)
(* (packages/core/scanner.ts), the instance loader                         *)
(* (packages/core/injector/instance-loader.ts) and the factory that runs   *)
(* them (packages/core/nest-factory.ts).                                   *)
(*                                                                         *)
(* The container, the Module entity and the Injector are used by these     *)
(* files but are not part of the sources at hand; their operations are     *)
(* modelled from the specification (sections 3, 4.2 and 4.4) and are       *)
(* marked "spec" in the comments below.                                    *)
(***************************************************************************)
EXTENDS Integers, Sequences, FiniteSets, TLC

(***************************************************************************)
(* Bounds of the model.                                                    *)
(***************************************************************************)
\* total number of import positions over all import lists of one graph
MaxPositions == 3
\* deepest recursion of scanForModules that is unfolded
MaxDepth == 6

(***************************************************************************)
(* Declarations: the values that stand in an import list.                  *)
(* One object of each form per class; two records are the same object iff  *)
(* they are equal.                                                         *)
(***************************************************************************)
ModuleTypes == {"A", "B", "C"}
RootType == "A"
CoreType == "InternalCoreModule"
\* a class carrying the @Injectable() watermark, not a module
ServiceType == "S"

TypeDecl(t) == [kind |-> "type", type |-> t]
\* forwardRef(() => t)
ForwardRef(t) == [kind |-> "forwardRef", type |-> t]
\* { module: t, imports: dynImports[t] }
DynamicModule(t) == [kind |-> "dynamic", type |-> t]
\* a pending promise that resolves to DynamicModule(t)
PromiseOf(t) == [kind |-> "promise", type |-> t]
Undefined == [kind |-> "undefined", type |-> "none"]
Null == [kind |-> "null", type |-> "none"]

ImportPool ==
    { TypeDecl("A"), TypeDecl("B"), TypeDecl("C"),
      ForwardRef("B"), DynamicModule("C"), PromiseOf("C"),
      TypeDecl(ServiceType), ForwardRef(ServiceType), Undefined, Null }

DynamicPool == { TypeDecl("B"), PromiseOf("C"), Undefined }

NoError == [name |-> "none", def |-> Null, index |-> 0, scope |-> <<>>]
NoToken == [type |-> "none", form |-> "none"]

VARIABLES
    importsMeta,    \* Reflect.getMetadata('imports', type): class -> import list
    dynImports,     \* the imports of the dynamic descriptor of class C
    phase,          \* position of scan()
    registry,       \* container.getModules(): Module entities in insertion order
    dynamicMeta,    \* container: dynamic 'imports' metadata recorded per token
    coreRef,        \* container.registerCoreModuleRef
    ctxRegistry,    \* declarations seen in the current traversal pass
    stack,          \* active calls of scanForModules, innermost last
    error,          \* the exception that aborted the scan
    depIdx,         \* scanModulesForDependencies: next registry position
    modulesStack,   \* calculateModulesDistance: modules already entered
    distStack,      \* active calls of calculateDistance, innermost last
    insertLog,      \* history: <<declaration, returned entity>> per insertModule
    enterLog,       \* history: declarations scanForModules was entered with
    depsOf,         \* wrapper -> the tokens its constructor takes, in order
    scopeOf,        \* wrapper -> "SINGLETON" or "TRANSIENT"
    exportsOf,      \* module -> the tokens and the modules it exports
    loading,        \* position of createInstancesOfDependencies
    protoIdx,       \* createPrototypes: next registry position
    prototypes,     \* wrappers whose placeholder loadPrototype has allocated
    task,           \* wrapper -> its loadProvider / loadInjectable call
    instance,       \* wrapper -> the instance cached in it (0: none)
    ctorCount,      \* wrapper -> invocations of its constructor
    delivered,      \* wrapper -> the instances its resolutions have yielded
    resolutions,    \* wrapper -> resolutions of it that have completed
    loadError,      \* the error createInstancesOfDependencies rejected with
    preview,        \* the option preview of the bootstrap
    boot,           \* position of createApplicationContext and initialize
    root            \* the module handed to the application context

scanVars == << importsMeta, dynImports, phase, dynamicMeta, coreRef,
               ctxRegistry, stack, error, depIdx, modulesStack, distStack,
               insertLog, enterLog >>

loadVars == << preview, depsOf, scopeOf, exportsOf, loading, protoIdx,
               prototypes,
               task, instance, ctorCount, delivered, resolutions,
               loadError >>

bootVars == << boot, root >>

vars == << scanVars, registry, loadVars, bootVars >>

\* what no step of scan changes: the metadata it reads, the loader's state
\* and the position of the factory
graphVars == << importsMeta, dynImports, loadVars, bootVars >>

(***************************************************************************)
(* Helpers on sequences.                                                   *)
(***************************************************************************)
Range(s) == { s[i] : i \in 1..Len(s) }
Includes(s, x) == \E i \in 1..Len(s) : s[i] = x
\* Set.add on an insertion-ordered set
SetAdd(s, x) == IF Includes(s, x) THEN s ELSE Append(s, x)
Last(s) == s[Len(s)]
Front(s) == SubSeq(s, 1, Len(s) - 1)

(***************************************************************************)
(* scanner.ts predicates                                                   *)
(***************************************************************************)
isForwardReference(d) == d.kind = "forwardRef"
isDynamicModule(d) == d.kind = "dynamic"
isInjectable(d) == d.kind = "type" /\ d.type = ServiceType

reflectMetadata(t) ==
    IF t \in DOMAIN importsMeta THEN importsMeta[t] ELSE <<>>

(***************************************************************************)
(* Container (spec 3 and 4.2).                                             *)
(***************************************************************************)
\* the module compiler and the token factory: a promise is awaited, a
\* descriptor is split into its class and its dynamic metadata, and the token
\* is derived from the class and, for a descriptor, its metadata. Any other
\* object (a forward reference that was not resolved) is taken as a class of
\* its own.
Compile(d) ==
    IF d.kind \in {"dynamic", "promise"}
    THEN [type |-> d.type, form |-> "dynamic"]
    ELSE IF d.kind = "type"
    THEN [type |-> d.type, form |-> "static"]
    ELSE [type |-> d.type, form |-> d.kind]

HasModule(reg, tok) == \E i \in 1..Len(reg) : reg[i].token = tok
ModuleIndex(reg, tok) == CHOOSE i \in 1..Len(reg) : reg[i].token = tok

NewModule(tok) ==
    [token |-> tok, metatype |-> tok.type, imports |-> <<>>, distance |-> 0]

\* container.addModule: idempotent by identity token
addModule(reg, d) ==
    LET tok == Compile(d)
    IN  IF HasModule(reg, tok) THEN reg ELSE Append(reg, NewModule(tok))

\* the entity addModule returns: its position in the registry
addedModule(reg, d) == ModuleIndex(addModule(reg, d), Compile(d))

\* container.addDynamicMetadata / getDynamicMetadataByToken(token, 'imports')
getDynamicMetadataByToken(tok) ==
    IF tok \in DOMAIN dynamicMeta THEN dynamicMeta[tok] ELSE <<>>

(***************************************************************************)
(* scanForModules: one frame per active call.                              *)
(***************************************************************************)
Frame(d, sc) ==
    [decl |-> d, def |-> d, scope |-> sc, pc |-> "enter", modules |-> <<>>,
     idx |-> 1, inst |-> NoToken, refs |-> <<>>, seen |-> {}]

Top == stack[Len(stack)]
Scanning == phase \in {"registerCoreModule", "scanForModules"}

\* a variant of moduleToAdd that hands a forward reference over as it is
moduleToAdd_unresolved(d) == d

\* insertModule (188-208): the declaration handed to the container
moduleToAdd(d) == IF isForwardReference(d) THEN TypeDecl(d.type) ELSE d

\* the watermarks are looked up on the declaration as it was handed in
insertModuleThrows_unresolved(d) == isInjectable(d)

\* lines 199-205: the class is marked as injectable, controller or filter
insertModuleThrows(d) == isInjectable(moduleToAdd(d))

\* lines 110-113: a promise is awaited
Awaited(d) == IF d.kind = "promise" THEN DynamicModule(d.type) ELSE d

\* lines 123-125: a forward reference is resolved
Resolved(d) == IF isForwardReference(d) THEN TypeDecl(d.type) ELSE d

\* the imports of a dynamic descriptor are left out of the traversal
ImportsOf_static(d) == reflectMetadata(d.type)

\* lines 130-143: static imports, then the descriptor's imports
ImportsOf(d) ==
    IF ~isDynamicModule(d)
    THEN reflectMetadata(d.type)
    ELSE reflectMetadata(d.type) \o dynImports

\* the exception is built without the traversal path
Throw_noPath(name, d, i, sc) ==
    /\ error' = [name |-> name, def |-> d, index |-> i, scope |-> <<>>]
    /\ phase' = "failed"

\* an exception leaves scanForModules and, through every awaiting caller, scan
Throw(name, d, i, sc) ==
    /\ error' = [name |-> name, def |-> d, index |-> i, scope |-> sc]
    /\ phase' = "failed"

\* scan (60-64) and registerCoreModule (575-585): the first traversal pass
RegisterCoreModule ==
    /\ phase = "start"
    /\ phase' = "registerCoreModule"
    /\ stack' = << Frame(TypeDecl(CoreType), <<>>) >>
    /\ ctxRegistry' = <<>>
    /\ UNCHANGED << graphVars, registry, dynamicMeta, coreRef, error, depIdx,
                    modulesStack, distStack, insertLog, enterLog >>

\* scanForModules, lines 105-143
ScanEnter ==
    /\ Scanning
    /\ stack # <<>>
    /\ Top.pc = "enter"
    /\ LET d == Top.def
       IN  /\ enterLog' = Append(enterLog, d)
           /\ IF insertModuleThrows(d)
              THEN /\ Throw("InvalidClassModuleException", d, 0, Top.scope)
                   /\ UNCHANGED << registry, dynamicMeta, ctxRegistry, stack,
                                   insertLog >>
              ELSE LET tok == Compile(moduleToAdd(d))
                       a == Awaited(d)
                       r == Resolved(a)
                   IN  /\ registry' = addModule(registry, moduleToAdd(d))
                       /\ dynamicMeta' =
                            IF tok.form = "dynamic"
                               /\ tok \notin DOMAIN dynamicMeta
                            THEN dynamicMeta @@ (tok :> dynImports)
                            ELSE dynamicMeta
                       /\ insertLog' = Append(insertLog,
                              << d, addedModule(registry, moduleToAdd(d)) >>)
                       /\ ctxRegistry' = Append(ctxRegistry, a)
                       /\ stack' = [stack EXCEPT ![Len(stack)] =
                            [@ EXCEPT !.def = r, !.pc = "loop",
                                      !.modules = ImportsOf(r),
                                      !.inst = tok,
                                      !.seen = Range(ctxRegistry)]]
                       /\ UNCHANGED << phase, error >>
    /\ UNCHANGED << graphVars, coreRef, depIdx, modulesStack, distStack >>

\* scanForModules, lines 149-173: one position of the import list
ScanImport ==
    /\ Scanning
    /\ stack # <<>>
    /\ Top.pc = "loop"
    /\ Top.idx <= Len(Top.modules)
    /\ LET innerModule == Top.modules[Top.idx]
       IN  IF innerModule.kind = "undefined"
           THEN /\ Throw("UndefinedModuleException", Top.def, Top.idx - 1,
                         Top.scope)
                /\ UNCHANGED << stack >>
           ELSE IF innerModule.kind = "null"
           THEN /\ Throw("InvalidModuleException", Top.def, Top.idx - 1,
                         Top.scope)
                /\ UNCHANGED << stack >>
           ELSE IF Includes(ctxRegistry, innerModule)
           THEN /\ stack' = [stack EXCEPT ![Len(stack)].idx = @ + 1]
                /\ UNCHANGED << phase, error >>
           ELSE /\ Len(stack) < MaxDepth
                /\ stack' = Append(stack,
                       Frame(innerModule, Append(Top.scope, Top.def)))
                /\ UNCHANGED << phase, error >>
    /\ UNCHANGED << graphVars, registry, dynamicMeta, coreRef, ctxRegistry,
                    depIdx, modulesStack, distStack, insertLog, enterLog >>

\* the value a call returns, lines 181-185
Returned(f) == IF f.inst = NoToken THEN f.refs ELSE << f.inst >> \o f.refs

\* scanForModules returns to the call of line 163
ScanReturn ==
    /\ Scanning
    /\ Len(stack) > 1
    /\ Top.pc = "loop"
    /\ Top.idx > Len(Top.modules)
    /\ stack' = [Front(stack) EXCEPT ![Len(stack) - 1] =
            [@ EXCEPT !.refs = @ \o Returned(Top), !.idx = @ + 1]]
    /\ UNCHANGED << graphVars, phase, registry, dynamicMeta, coreRef,
                    ctxRegistry, error, depIdx, modulesStack, distStack,
                    insertLog, enterLog >>

\* registerCoreModule (585-586), then scan (68): the second traversal pass
CoreRegistered ==
    /\ phase = "registerCoreModule"
    /\ Len(stack) = 1
    /\ Top.pc = "loop"
    /\ Top.idx > Len(Top.modules)
    /\ coreRef' = Head(Returned(Top))
    /\ phase' = "scanForModules"
    /\ stack' = << Frame(TypeDecl(RootType), <<>>) >>
    /\ ctxRegistry' = <<>>
    /\ UNCHANGED << graphVars, registry, dynamicMeta, error, depIdx,
                    modulesStack, distStack, insertLog, enterLog >>

\* scan (68-74): discovery is over, the dependency pass begins
RootScanned ==
    /\ phase = "scanForModules"
    /\ Len(stack) = 1
    /\ Top.pc = "loop"
    /\ Top.idx > Len(Top.modules)
    /\ stack' = <<>>
    /\ phase' = "scanModulesForDependencies"
    /\ depIdx' = 1
    /\ UNCHANGED << graphVars, registry, dynamicMeta, coreRef, ctxRegistry,
                    error, modulesStack, distStack, insertLog, enterLog >>

(***************************************************************************)
(* scanModulesForDependencies (210-223): the dependency pass.              *)
(***************************************************************************)
\* container.addImport (spec 4.2): the entity of the related declaration is
\* added to the importer's ordered set of imports
addImport(imports, related) == SetAdd(imports, Compile(related))

\* insertImport (476-484) over the positions from i on: the import edges, or
\* the first position that is undefined
RECURSIVE insertImports(_, _, _)
insertImports(modules, i, imports) ==
    IF i > Len(modules) THEN [ok |-> TRUE, imports |-> imports]
    ELSE IF modules[i].kind = "undefined"
    THEN [ok |-> FALSE, imports |-> imports]
    ELSE IF isForwardReference(modules[i])
    THEN insertImports(modules, i + 1,
                       addImport(imports, TypeDecl(modules[i].type)))
    ELSE insertImports(modules, i + 1, addImport(imports, modules[i]))

\* reflectImports (228-246)
reflectImports(m) ==
    insertImports(reflectMetadata(m.metatype)
                      \o getDynamicMetadataByToken(m.token),
                  1, m.imports)

\* one iteration of the loop of scanModulesForDependencies
ReflectModule ==
    /\ phase = "scanModulesForDependencies"
    /\ depIdx <= Len(registry)
    /\ LET m == registry[depIdx]
           r == reflectImports(m)
       IN  IF r.ok
           THEN /\ registry' = [registry EXCEPT ![depIdx].imports = r.imports]
                /\ depIdx' = depIdx + 1
                /\ UNCHANGED << phase, error >>
           ELSE /\ registry' = [registry EXCEPT ![depIdx].imports = r.imports]
                /\ Throw("CircularDependencyException", TypeDecl(m.metatype),
                         0, <<>>)
                /\ UNCHANGED depIdx
    /\ UNCHANGED << graphVars, dynamicMeta, coreRef, ctxRegistry, stack,
                    modulesStack, distStack, insertLog, enterLog >>

(***************************************************************************)
(* calculateModulesDistance (443-467).                                     *)
(***************************************************************************)
DistFrame(tok, d) == [mod |-> tok, distance |-> d, idx |-> 1]
DistTop == distStack[Len(distStack)]
ImportsOfModule(tok) == registry[ModuleIndex(registry, tok)].imports

\* the first entry is not skipped: the walk starts at the head of the registry
CalculateModulesDistance_noSkip ==
    /\ phase = "scanModulesForDependencies"
    /\ depIdx > Len(registry)
    /\ phase' = "calculateModulesDistance"
    /\ modulesStack' = << registry[1].token >>
    /\ distStack' = << DistFrame(registry[1].token, 1) >>
    /\ UNCHANGED << graphVars, registry, dynamicMeta, coreRef, ctxRegistry,
                    stack, error, depIdx, insertLog, enterLog >>

\* lines 444-449 and 465-466: the first entry is skipped, the walk starts at
\* the second one
CalculateModulesDistance ==
    /\ phase = "scanModulesForDependencies"
    /\ depIdx > Len(registry)
    /\ phase' = "calculateModulesDistance"
    /\ IF Len(registry) >= 2
       THEN /\ modulesStack' = << registry[2].token >>
            /\ distStack' = << DistFrame(registry[2].token, 1) >>
       ELSE /\ modulesStack' = <<>>
            /\ distStack' = <<>>
    /\ UNCHANGED << graphVars, registry, dynamicMeta, coreRef, ctxRegistry,
                    stack, error, depIdx, insertLog, enterLog >>

\* the distance a visit of an import writes (459)
assignDistance(reg, tok, d) ==
    [reg EXCEPT ![ModuleIndex(reg, tok)].distance = d]

\* only the module entered last is remembered
alreadyVisited_last(ms, ref) == ms # <<>> /\ ms[Len(ms)] = ref

\* line 451: the module was entered before in this walk
alreadyVisited(ms, ref) == Includes(ms, ref)

\* calculateDistance, lines 457-461: one import of the module on top
DistImport ==
    /\ phase = "calculateModulesDistance"
    /\ distStack # <<>>
    /\ DistTop.idx <= Len(ImportsOfModule(DistTop.mod))
    /\ LET importedModuleRef == ImportsOfModule(DistTop.mod)[DistTop.idx]
       IN  IF ~HasModule(registry, importedModuleRef)
           THEN /\ distStack' = [distStack EXCEPT ![Len(distStack)].idx = @ + 1]
                /\ UNCHANGED << registry, modulesStack >>
           ELSE /\ registry' = assignDistance(registry, importedModuleRef,
                                              DistTop.distance)
                /\ IF alreadyVisited(modulesStack, importedModuleRef)
                   THEN /\ distStack' =
                             [distStack EXCEPT ![Len(distStack)].idx = @ + 1]
                        /\ UNCHANGED modulesStack
                   ELSE /\ modulesStack' =
                             Append(modulesStack, importedModuleRef)
                        /\ distStack' = Append(distStack,
                             DistFrame(importedModuleRef, DistTop.distance + 1))
    /\ UNCHANGED << graphVars, phase, dynamicMeta, coreRef, ctxRegistry, stack,
                    error, depIdx, insertLog, enterLog >>

\* calculateDistance returns to the forEach of its caller
DistReturn ==
    /\ phase = "calculateModulesDistance"
    /\ Len(distStack) > 1
    /\ DistTop.idx > Len(ImportsOfModule(DistTop.mod))
    /\ distStack' = [Front(distStack) EXCEPT ![Len(distStack) - 1].idx = @ + 1]
    /\ UNCHANGED << graphVars, phase, registry, dynamicMeta, coreRef,
                    ctxRegistry, stack, error, depIdx, modulesStack,
                    insertLog, enterLog >>

\* the outermost calculateDistance returns: calculateModulesDistance is over
DistDone ==
    /\ phase = "calculateModulesDistance"
    /\ Len(distStack) <= 1
    /\ distStack # <<>> => DistTop.idx > Len(ImportsOfModule(DistTop.mod))
    /\ distStack' = <<>>
    /\ phase' = "bindGlobalScope"
    /\ UNCHANGED << graphVars, registry, dynamicMeta, coreRef, ctxRegistry,
                    stack, error, depIdx, modulesStack, insertLog, enterLog >>

(***************************************************************************)
(* container.bindGlobalScope (scan, line 82; spec 4.1 step 7): every module *)
(* flagged global becomes an import of every other module.                 *)
(***************************************************************************)
GlobalTypes == { "C" }

GlobalTokens(reg) ==
    { reg[i].token : i \in { j \in 1..Len(reg) : reg[j].metatype \in GlobalTypes } }

RECURSIVE AddAll(_, _)
AddAll(imports, toks) ==
    IF toks = {} THEN imports
    ELSE LET t == CHOOSE x \in toks : TRUE
         IN  AddAll(SetAdd(imports, t), toks \ {t})

bindGlobalScope(reg) ==
    [i \in 1..Len(reg) |->
        [reg[i] EXCEPT !.imports =
            AddAll(@, GlobalTokens(reg) \ {reg[i].token})]]

\* scan, line 82: the global scope is bound and scan returns
BindGlobalScope ==
    /\ phase = "bindGlobalScope"
    /\ registry' = bindGlobalScope(registry)
    /\ phase' = "scanned"
    /\ UNCHANGED << graphVars, dynamicMeta, coreRef, ctxRegistry, stack, error,
                    depIdx, modulesStack, distStack, insertLog, enterLog >>

(***************************************************************************)
(* The catalogs the loader walks. The registry is the one scan leaves for  *)
(* a root A that imports B and C, with B importing D.                      *)
(*   A: provider a, injectable g      C: provider y                        *)
(*   D: providers x and z             B, InternalCoreModule: none          *)
(* A wrapper is named by its token; a token names one wrapper.             *)
(***************************************************************************)
Units == {"a", "g", "x", "y", "z"}
Injectables == {"g"}
Providers == Units \ Injectables
\* a token no module provides
MissingToken == "q"
NoUnit == "none"
LoadedTypes == {CoreType, "A", "B", "C", "D"}

Host(u) ==
    IF u \in {"a", "g"} THEN "A" ELSE IF u = "y" THEN "C" ELSE "D"

ProvidersOf(m) == { u \in Providers : Host(u) = m }
InjectablesOf(m) == { u \in Injectables : Host(u) = m }

StaticToken(t) == [type |-> t, form |-> "static"]

\* the loader walks the registry: the wrappers it meets are those of the
\* modules that are registered
Registered(m) == \E i \in 1..Len(registry) : registry[i].metatype = m
LoadedUnits == { u \in Units : Registered(Host(u)) }

NoLoadError == [name |-> "none", unit |-> NoUnit, token |-> "none"]
IdleTask == [status |-> "idle", stack |-> <<>>, error |-> NoLoadError]
NewFrame(u) == [unit |-> u, i |-> 1, args |-> <<>>]

(***************************************************************************)
(* Injector (spec 4.4): the lookup of a dependency token.                  *)
(***************************************************************************)
\* every module that n imports, re-exported or not, counts as exposed by n
RECURSIVE Exposes_transitive(_, _, _)
Exposes_transitive(n, t, seen) ==
    \/ t \in exportsOf[n].tokens /\ t \in ProvidersOf(n)
    \/ LET e == registry[ModuleIndex(registry, [type |-> n, form |-> "static"])]
       IN  \E i \in 1..Len(e.imports) :
              /\ e.imports[i].type \notin seen \cup {n}
              /\ Exposes_transitive(e.imports[i].type, t, seen \cup {n})

\* module n exposes token t to its importers: it exports its own provider t,
\* or it re-exports a module that exposes t
RECURSIVE Exposes(_, _, _)
Exposes(n, t, seen) ==
    \/ t \in exportsOf[n].tokens /\ t \in ProvidersOf(n)
    \/ \E k \in exportsOf[n].modules \ (seen \cup {n}) :
          Exposes(k, t, seen \cup {n})

\* the first import, in the order of the imports, that exposes t
RECURSIVE lookupInImports(_, _, _)
lookupInImports(imports, i, t) ==
    IF i > Len(imports) THEN NoUnit
    ELSE IF Exposes(imports[i].type, t, {}) THEN t
    ELSE lookupInImports(imports, i + 1, t)

\* step 3: the module's own catalog, then its direct imports; the modules of
\* the global scope stand last among the imports (bindGlobalScope)
lookupComponent(m, t) ==
    IF t \in ProvidersOf(m) THEN t
    ELSE lookupInImports(
             registry[ModuleIndex(registry, StaticToken(m))].imports, 1, t)

\* the placeholder that loadPrototype allocated is taken for the instance
isResolved_prototype(u) ==
    scopeOf[u] = "SINGLETON" /\ (instance[u] # 0 \/ u \in prototypes)

\* step 1: a SINGLETON whose instance is set is not resolved again
isResolved(u) == scopeOf[u] = "SINGLETON" /\ instance[u] # 0

\* step 2: the tokens on a resolution stack
StackTokens(st) == { st[k].unit : k \in 1..Len(st) }

(***************************************************************************)
(* InstanceLoader.createInstancesOfDependencies (14-20).                   *)
(***************************************************************************)
\* loadPrototype for the providers and the injectables of one module (22-28,
\* 40-45, 74-79)
createPrototypesOf(m) == ProvidersOf(m) \cup InjectablesOf(m)

CreatePrototypes ==
    /\ loading = "createPrototypes"
    /\ protoIdx <= Len(registry)
    /\ prototypes' = prototypes \cup createPrototypesOf(registry[protoIdx].metatype)
    /\ protoIdx' = protoIdx + 1
    /\ UNCHANGED << scanVars, bootVars, registry, preview, depsOf, scopeOf,
                    exportsOf, loading,
                    task, instance, ctorCount, delivered, resolutions,
                    loadError >>

\* createInstances is not held back until createPrototypes is through
prototypesCreated_first(idx, reg) == idx > 1

\* line 17 has returned: createPrototypes went through every module
prototypesCreated(idx, reg) == idx > Len(reg)

Loading == loading \in {"createInstances", "rejected"}

\* a resolution of wrapper v has yielded instance n of it
yield(v, n) ==
    /\ delivered' = [delivered EXCEPT ![v] = @ \cup {n}]
    /\ resolutions' = [resolutions EXCEPT ![v] = @ + 1]

\* the option does not reach the injector
injectorOptions_dropped(p) == FALSE

\* nest-factory.ts, initialize (79): new Injector({ preview: options.preview })
injectorOptions(p) == p

\* the injector is entered for a wrapper the loader hands it (steps 1, 2);
\* with preview nothing is instantiated (spec 6)
enterTopLevel(u) ==
    IF injectorOptions(preview) \/ isResolved(u)
    THEN [status |-> "done", stack |-> <<>>, error |-> NoLoadError]
    ELSE [status |-> "running", stack |-> << NewFrame(u) >>,
          error |-> NoLoadError]

\* line 19, createInstances (30-37): the callback of every module runs up to
\* its first await, which is to call loadProvider for every provider of the
\* module (47-55)
CreateInstances ==
    /\ loading = "createPrototypes"
    /\ prototypesCreated(protoIdx, registry)
    /\ loading' = "createInstances"
    /\ task' = [u \in Units |->
                   IF u \in Providers \cap LoadedUnits
                   THEN enterTopLevel(u) ELSE task[u]]
    /\ UNCHANGED << scanVars, bootVars, registry, preview, depsOf, scopeOf,
                    exportsOf, protoIdx,
                    prototypes, instance, ctorCount, delivered,
                    resolutions, loadError >>

\* the injectables of m are not held back by its providers
providersLoaded_unawaited(m) == TRUE

\* line 33 has returned for module m: every provider of m is loaded
providersLoaded(m) == \A u \in ProvidersOf(m) : task[u].status = "done"

\* createInstances, lines 33-34: the callback of m goes on and calls
\* loadInjectable for every injectable of m (81-89)
CreateInstancesOfInjectables ==
    \E m \in LoadedTypes :
        /\ Loading
        /\ Registered(m)
        /\ providersLoaded(m)
        /\ \E u \in InjectablesOf(m) : task[u].status = "idle"
        /\ task' = [u \in Units |->
                       IF u \in InjectablesOf(m) THEN enterTopLevel(u)
                       ELSE task[u]]
        /\ UNCHANGED << scanVars, bootVars, registry, preview, depsOf, scopeOf,
                        exportsOf,
                        loading, protoIdx, prototypes, instance, ctorCount,
                        delivered, resolutions, loadError >>

\* createInstances, line 31: Promise.all over the modules is fulfilled
InstancesCreated ==
    /\ loading = "createInstances"
    /\ \A u \in LoadedUnits : task[u].status = "done"
    /\ loading' = "resolved"
    /\ UNCHANGED << scanVars, bootVars, registry, preview, depsOf, scopeOf,
                    exportsOf, protoIdx,
                    prototypes, task, instance, ctorCount, delivered,
                    resolutions, loadError >>

\* the rejection of a callback is swallowed
rejectAll_swallowed(l) == l

\* Promise.all of lines 50, 84 and 31, with the awaits of lines 33-34: the
\* first unit that fails rejects the callback of its module, and that rejects
\* createInstancesOfDependencies, which stays as it is after that
rejectAll(l) == IF l = "createInstances" THEN "rejected" ELSE l

\* every rejection replaces the reason
rejectionOf_last(l, old, err) == err

\* Promise.all of line 31 is settled once: the reason it rejects with is the
\* one of the first rejection, later ones are dropped
rejectionOf(l, old, err) == IF l = "createInstances" THEN err ELSE old

\* what a failure leaves of the instances that were set (nothing is undone)
afterFailure(inst) == inst

\* the resolution that the loader started for u fails with err
Reject(u, err) ==
    /\ task' = [task EXCEPT ![u] =
            [status |-> "failed", stack |-> <<>>, error |-> err]]
    /\ loading' = rejectAll(loading)
    /\ loadError' = rejectionOf(loading, loadError, err)
    /\ instance' = afterFailure(instance)
    /\ UNCHANGED << delivered, resolutions >>

\* steps 1 to 3 for the next dependency of the wrapper that is being resolved
ResolveDependency ==
    \E u \in Units :
        /\ Loading
        /\ task[u].status = "running"
        /\ LET st == task[u].stack
               f == st[Len(st)]
           IN  /\ f.i <= Len(depsOf[f.unit])
               /\ LET t == depsOf[f.unit][f.i]
                      v == lookupComponent(Host(f.unit), t)
                  IN  IF v = NoUnit
                      THEN Reject(u, [name |-> "UnknownDependency",
                                      unit |-> f.unit, token |-> t])
                      ELSE IF isResolved(v)
                      THEN /\ task' = [task EXCEPT ![u].stack[Len(st)] =
                                  [f EXCEPT !.i = @ + 1,
                                      !.args = Append(@, << v, instance[v] >>)]]
                           /\ yield(v, instance[v])
                           /\ UNCHANGED << loading, loadError, instance >>
                      ELSE IF v \in StackTokens(st)
                      THEN Reject(u, [name |-> "CircularDependency",
                                      unit |-> f.unit, token |-> t])
                      ELSE /\ task' = [task EXCEPT ![u].stack =
                                  Append(st, NewFrame(v))]
                           /\ UNCHANGED << loading, loadError, instance,
                                           delivered, resolutions >>
        /\ UNCHANGED << scanVars, bootVars, registry, preview, depsOf, scopeOf,
                        exportsOf,
                        protoIdx, prototypes, ctorCount >>

\* every scope caches
cacheInstance_always(u, n) == n

\* step 6: what the wrapper keeps of the instance its constructor produced
cacheInstance(u, n) == IF scopeOf[u] = "SINGLETON" THEN n ELSE instance[u]

\* the last dependency is not waited for
dependenciesResolved_early(f) == f.i >= Len(depsOf[f.unit])

\* the dependencies have to be resolved before the constructor is invoked
dependenciesResolved(f) == f.i > Len(depsOf[f.unit])

\* steps 4 to 6: the constructor is invoked with the resolved arguments, the
\* token is popped and the instance goes to the consumer
Instantiate ==
    \E u \in Units :
        /\ Loading
        /\ task[u].status = "running"
        /\ LET st == task[u].stack
               f == st[Len(st)]
               w == f.unit
               n == ctorCount[w] + 1
           IN  /\ dependenciesResolved(f)
               /\ ctorCount' = [ctorCount EXCEPT ![w] = n]
               /\ instance' = [instance EXCEPT ![w] = cacheInstance(w, n)]
               /\ yield(w, n)
               /\ IF Len(st) = 1
                  THEN task' = [task EXCEPT ![u] =
                           [status |-> "done", stack |-> <<>>,
                            error |-> NoLoadError]]
                  ELSE task' = [task EXCEPT ![u].stack =
                           [Front(st) EXCEPT ![Len(st) - 1] =
                               [@ EXCEPT !.i = @ + 1,
                                         !.args = Append(@, << w, n >>)]]]
        /\ UNCHANGED << scanVars, bootVars, registry, preview, depsOf, scopeOf,
                        exportsOf,
                        loading, protoIdx, prototypes, loadError >>

\* An import list nothing refers to is never read: such graphs are left out,
\* another graph of the family behaves the same.
Referenced(meta, dyn, t) ==
    \E u \in ModuleTypes \ {t} : \E i \in 1..Len(meta[u]) : meta[u][i].type = t

Canonical(meta, dyn) ==
    /\ \A t \in ModuleTypes \ {RootType} :
          meta[t] # <<>> =>
             \/ Referenced(meta, dyn, t)
             \/ \E i \in 1..Len(dyn) : dyn[i].type = t
    /\ dyn # <<>> =>
          \E u \in ModuleTypes : \E i \in 1..Len(meta[u]) :
              meta[u][i].kind \in {"dynamic", "promise"}
    /\ Len(meta["A"]) + Len(meta["B"]) + Len(meta["C"]) + Len(dyn)
          <= MaxPositions

\* createApplicationContext has called initialize (45)
FactoryIdle ==
    /\ boot = "initialize"
    /\ root = NoToken

\* the loader before createInstancesOfDependencies is called
LoaderIdle ==
    /\ depsOf = [u \in Units |-> <<>>]
    /\ scopeOf = [u \in Units |-> "SINGLETON"]
    /\ exportsOf = [m \in LoadedTypes |-> [tokens |-> {}, modules |-> {}]]
    /\ loading = "idle"
    /\ protoIdx = 0
    /\ prototypes = {}
    /\ task = [u \in Units |-> IdleTask]
    /\ instance = [u \in Units |-> 0]
    /\ ctorCount = [u \in Units |-> 0]
    /\ delivered = [u \in Units |-> {}]
    /\ resolutions = [u \in Units |-> 0]
    /\ loadError = NoLoadError
    /\ preview = FALSE

\* the metadata of the module classes and the scanner as it is constructed
ScannerIdle ==
    /\ \E la \in 0..MaxPositions :
       \E lb \in 0..(MaxPositions - la) :
       \E lc \in 0..(MaxPositions - la - lb) :
       \E ia \in [1..la -> ImportPool] :
       \E ib \in [1..lb -> ImportPool] :
       \E ic \in [1..lc -> ImportPool] :
           importsMeta = [t \in ModuleTypes |->
                IF t = "A" THEN ia ELSE IF t = "B" THEN ib ELSE ic]
    /\ dynImports \in { <<>> } \cup { << x >> : x \in DynamicPool }
    /\ Canonical(importsMeta, dynImports)
    /\ phase = "start"
    /\ registry = <<>>
    /\ dynamicMeta = << >>
    /\ coreRef = NoToken
    /\ ctxRegistry = <<>>
    /\ stack = <<>>
    /\ error = NoError
    /\ depIdx = 0
    /\ modulesStack = <<>>
    /\ distStack = <<>>
    /\ insertLog = <<>>
    /\ enterLog = <<>>

Init ==
    /\ ScannerIdle
    /\ LoaderIdle
    /\ FactoryIdle

Next ==
    \/ RegisterCoreModule
    \/ ScanEnter
    \/ ScanImport
    \/ ScanReturn
    \/ CoreRegistered
    \/ RootScanned
    \/ ReflectModule
    \/ CalculateModulesDistance
    \/ DistImport
    \/ DistReturn
    \/ DistDone
    \/ BindGlobalScope

Spec == Init /\ [][Next]_vars

\* calculateModulesDistance is synchronous: once called it runs to its return
FairSpec == Spec /\ WF_vars(DistImport \/ DistReturn \/ DistDone)

(***************************************************************************)
(* createInstancesOfDependencies on the registry of a finished scan.       *)
(***************************************************************************)
\* total number of constructor parameters over all wrappers
MaxDeps == 3

\* the tokens the constructor of each wrapper may ask for
DepPool(u) ==
    IF u = "a" THEN {"x", "y"}
    ELSE IF u = "g" THEN {"a"}
    ELSE IF u = "x" THEN {"z", MissingToken}
    ELSE IF u = "z" THEN {"x", "y"}
    ELSE {}

ModuleEntity(t, imports, d) ==
    [token |-> StaticToken(t), metatype |-> t, imports |-> imports,
     distance |-> d]

\* the registry after scan; with C flagged global, bindGlobalScope has added
\* it to the imports of every other module
ScannedRegistry(globalC) ==
    LET g == IF globalC THEN << StaticToken("C") >> ELSE <<>>
    IN  << ModuleEntity(CoreType, g, 0),
           ModuleEntity("A", << StaticToken("B"), StaticToken("C") >>, 0),
           ModuleEntity("B", << StaticToken("D") >> \o g, 1),
           ModuleEntity("D", g, 2),
           ModuleEntity("C", <<>>, 1) >>

ScanDone ==
    /\ importsMeta = [t \in ModuleTypes |-> <<>>]
    /\ dynImports = <<>>
    /\ phase = "scanned"
    /\ dynamicMeta = << >>
    /\ coreRef = StaticToken(CoreType)
    /\ ctxRegistry = <<>>
    /\ stack = <<>>
    /\ error = NoError
    /\ depIdx = 0
    /\ modulesStack = <<>>
    /\ distStack = <<>>
    /\ insertLog = <<>>
    /\ enterLog = <<>>

LoadInit ==
    /\ ScanDone
    /\ FactoryIdle
    /\ \E globalC \in BOOLEAN : registry = ScannedRegistry(globalC)
    /\ \E reexportD \in BOOLEAN :
          exportsOf = [m \in LoadedTypes |->
              IF m = "C" THEN [tokens |-> {"y"}, modules |-> {}]
              ELSE IF m = "D" THEN [tokens |-> {"x"}, modules |-> {}]
              ELSE IF m = "B" /\ reexportD THEN [tokens |-> {}, modules |-> {"D"}]
              ELSE [tokens |-> {}, modules |-> {}]]
    /\ \E la \in 0..MaxDeps :
       \E lg \in 0..(MaxDeps - la) :
       \E lx \in 0..(MaxDeps - la - lg) :
       \E lz \in 0..(MaxDeps - la - lg - lx) :
       \E da \in [1..la -> DepPool("a")] :
       \E dg \in [1..lg -> DepPool("g")] :
       \E dx \in [1..lx -> DepPool("x")] :
       \E dz \in [1..lz -> DepPool("z")] :
           depsOf = [u \in Units |->
               IF u = "a" THEN da ELSE IF u = "g" THEN dg
               ELSE IF u = "x" THEN dx ELSE IF u = "z" THEN dz ELSE <<>>]
    /\ \E tr \in SUBSET {"x"} :
          scopeOf = [u \in Units |->
              IF u \in tr THEN "TRANSIENT" ELSE "SINGLETON"]
    /\ preview \in BOOLEAN
    /\ loading = "createPrototypes"
    /\ protoIdx = 1
    /\ prototypes = {}
    /\ task = [u \in Units |-> IdleTask]
    /\ instance = [u \in Units |-> 0]
    /\ ctorCount = [u \in Units |-> 0]
    /\ delivered = [u \in Units |-> {}]
    /\ resolutions = [u \in Units |-> 0]
    /\ loadError = NoLoadError

LoadNext ==
    \/ CreatePrototypes
    \/ CreateInstances
    \/ CreateInstancesOfInjectables
    \/ InstancesCreated
    \/ ResolveDependency
    \/ Instantiate

LoadSpec == LoadInit /\ [][LoadNext]_vars

(***************************************************************************)
(* NestFactory.createApplicationContext (37-61) and initialize (67-100):   *)
(* scan, then the loader on the registry scan has left, then the           *)
(* application providers, then the application context.                    *)
(*   A: provider a, which asks for y, and injectable g, which asks for a   *)
(*   C: provider y, exported                                               *)
(* The scanned graph decides whether C is among the modules A imports.     *)
(***************************************************************************)
\* the catalogs the dependency pass collects for the loader
Catalogs ==
    /\ depsOf = [u \in Units |->
          IF u = "a" THEN << "y" >> ELSE IF u = "g" THEN << "a" >> ELSE <<>>]
    /\ scopeOf = [u \in Units |-> "SINGLETON"]
    /\ exportsOf = [n \in LoadedTypes |->
          IF n = "C" THEN [tokens |-> {"y"}, modules |-> {}]
          ELSE [tokens |-> {}, modules |-> {}]]

BootInit ==
    /\ ScannerIdle
    /\ FactoryIdle
    /\ Catalogs
    /\ preview \in BOOLEAN
    /\ loading = "idle"
    /\ protoIdx = 0
    /\ prototypes = {}
    /\ task = [u \in Units |-> IdleTask]
    /\ instance = [u \in Units |-> 0]
    /\ ctorCount = [u \in Units |-> 0]
    /\ delivered = [u \in Units |-> {}]
    /\ resolutions = [u \in Units |-> 0]
    /\ loadError = NoLoadError

\* initialize, line 96: await dependenciesScanner.scan(module) has returned
scanAwaited(p) == p = "scanned"

\* initialize, line 97: createInstancesOfDependencies is called
CreateInstancesOfDependencies ==
    /\ boot = "initialize"
    /\ scanAwaited(phase)
    /\ loading = "idle"
    /\ loading' = "createPrototypes"
    /\ protoIdx' = 1
    /\ UNCHANGED << scanVars, bootVars, registry, preview, depsOf, scopeOf,
                    exportsOf, prototypes, task, instance, ctorCount,
                    delivered, resolutions, loadError >>

\* the next statement runs although the loader has rejected
instancesAwaited_caught(l) == l \in {"resolved", "rejected"}

\* initialize, line 97: await createInstancesOfDependencies() has returned
instancesAwaited(l) == l = "resolved"

\* initialize, line 98: applyApplicationProviders is invoked. The scanner at
\* hand (scanner.ts) declares no such method: the call either returns, as a
\* scanner that has the method with nothing to apply would, and then the
\* callback of asyncRun and initialize return, or it throws and initialize
\* is left
ApplyApplicationProviders ==
    /\ boot = "initialize"
    /\ instancesAwaited(loading)
    /\ boot' \in {"applyApplicationProviders", "rejected"}
    /\ UNCHANGED << scanVars, registry, loadVars, root >>

\* the second value of the registry is taken
firstModule_second(reg) == IF Len(reg) >= 2 THEN reg[2].token ELSE NoToken

\* createApplicationContext, lines 53-54: container.getModules().values()
\* .next().value, the first value of the registry in insertion order
firstModule(reg) == IF reg = <<>> THEN NoToken ELSE reg[1].token

\* createApplicationContext, lines 53-58: the context is built on root
CreateApplicationContext ==
    /\ boot = "applyApplicationProviders"
    /\ root' = firstModule(registry)
    /\ boot' = "createApplicationContext"
    /\ UNCHANGED << scanVars, registry, loadVars >>

BootNext ==
    \/ Next
    \/ CreateInstancesOfDependencies
    \/ LoadNext
    \/ ApplyApplicationProviders
    \/ CreateApplicationContext

BootSpec == BootInit /\ [][BootNext]_vars

(***************************************************************************)
(* Properties of the scan.                                                 *)
(***************************************************************************)
\* scanForModules has been left: the scan went on, or an exception ended it
ScanOver == phase \notin {"start", "registerCoreModule", "scanForModules"}

\* the canonical (class, dynamic metadata) pair a declaration stands for
Identity(d) ==
    [type |-> d.type,
     form |-> IF d.kind \in {"dynamic", "promise"} THEN "dynamic" ELSE "static"]

\* an active call entered with the declaration and the visited declarations
\* of a call that encloses it: the inner call has nothing new to go by, it
\* takes the steps of the outer one and enters the same call again, forever
Reentered(i, j) ==
    /\ i < j
    /\ stack[i].pc = "loop"
    /\ stack[j].pc = "loop"
    /\ stack[i].decl = stack[j].decl
    /\ stack[i].seen = stack[j].seen

\* no import position is undefined or falsy
AllPositionsResolve ==
    /\ \A t \in ModuleTypes : \A i \in 1..Len(importsMeta[t]) :
          importsMeta[t][i].kind \notin {"undefined", "null"}
    /\ \A i \in 1..Len(dynImports) :
          dynImports[i].kind \notin {"undefined", "null"}

\* C1: on a graph whose import positions all resolve, scanForModules
\* terminates, cycles and all four declaration forms included. Stated in the
\* form a finite run refutes: the recursion never re-enters a call in the
\* configuration (declaration, visited declarations) of a call that is still
\* active, which is what an endless recursion of this deterministic
\* traversal does.
C1_ScanTerminates ==
    AllPositionsResolve =>
        \A i, j \in 1..Len(stack) : ~Reentered(i, j)

\* C2: one Module entity per identity token. No two entries of the registry
\* share a token; every insertModule call returned the one entity of the
\* identity its declaration stands for, the same entity for the same
\* identity; and the registry holds as many entities as identities were
\* inserted.
C2_OneEntityPerToken ==
    /\ \A i, j \in 1..Len(registry) :
          registry[i].token = registry[j].token => i = j
    /\ \A k \in 1..Len(insertLog) :
          /\ insertLog[k][2] \in 1..Len(registry)
          /\ registry[insertLog[k][2]].token = Identity(insertLog[k][1])
    /\ \A k, l \in 1..Len(insertLog) :
          Identity(insertLog[k][1]) = Identity(insertLog[l][1])
              => insertLog[k][2] = insertLog[l][2]
    /\ Len(registry) =
          Cardinality({ Identity(insertLog[k][1]) : k \in 1..Len(insertLog) })

\* a finished scan in which module B was inserted as a plain class and again
\* through a forward reference
C2_Witness ==
    /\ phase = "scanned"
    /\ \E k, l \in 1..Len(insertLog) :
          /\ insertLog[k][1] = TypeDecl("B")
          /\ insertLog[l][1] = ForwardRef("B")
          /\ insertLog[k][2] = insertLog[l][2]

\* calculateModulesDistance has returned
DistanceDone == phase \in {"bindGlobalScope"}

DistanceOf(tok) == registry[ModuleIndex(registry, tok)].distance

\* C10: after calculateModulesDistance every direct import of the root
\* module has distance 1.
C10_RootImportsDistanceOne ==
    DistanceDone =>
        \A i \in 1..Len(registry[2].imports) :
            HasModule(registry, registry[2].imports[i])
                => DistanceOf(registry[2].imports[i]) = 1

(***************************************************************************)
(* Properties of createInstancesOfDependencies.                            *)
(***************************************************************************)
\* the wrapper that position i of the constructor of w resolves to
Resolves(w, i) == lookupComponent(Host(w), depsOf[w][i])

\* the constructor of w takes an instance of v
DependsOn(w, v) == \E i \in 1..Len(depsOf[w]) : Resolves(w, i) = v

\* the wrappers w depends on, transitively
RECURSIVE Closure(_)
Closure(S) ==
    LET T == S \cup { v \in Units : \E w \in S : DependsOn(w, v) }
    IN  IF T = S THEN S ELSE Closure(T)

Dependencies(w) == Closure({ v \in Units : DependsOn(w, v) })

\* w is on a cycle of constructor dependencies
OnCycle(w) == w \in Dependencies(w)

failsCircular(u) ==
    task[u].status = "failed" => task[u].error.name = "CircularDependency"

\* C4 as claimed: the resolution of a unit on a constructor cycle never
\* succeeds (where units are resolved at all, that is without the option
\* preview), fails with the circular dependency error and with no other, and
\* no constructor of a unit on the cycle is ever invoked.
C4_CycleReportedAsCircular ==
    \A u \in Providers :
        OnCycle(u) =>
            /\ ctorCount[u] = 0
            /\ ~preview => task[u].status # "done"
            /\ failsCircular(u)

\* position i of the constructor of w has no provider visible from its module
Unknown(w, i) == Resolves(w, i) = NoUnit

\* the resolution of u meets a token without a visible provider
MeetsUnknown(u) ==
    \E w \in Dependencies(u) \cup {u} : \E i \in 1..Len(depsOf[w]) : Unknown(w, i)

\* C4, amended: the resolution of a unit on a constructor cycle never
\* succeeds (where units are resolved at all, that is without the option
\* preview) and no constructor of a unit on the cycle is ever invoked; it
\* fails with the circular dependency error, or with unknown dependency when
\* a unit it reaches asks for a token that has no visible provider.
C4_CycleNeverConstructed ==
    \A u \in Providers :
        \* only a unit that was constructed or whose resolution has ended can
        \* fail the property
        (ctorCount[u] # 0 \/ task[u].status \in {"done", "failed"})
        /\ OnCycle(u) =>
            /\ ctorCount[u] = 0
            /\ ~preview => task[u].status # "done"
            /\ task[u].status = "failed" =>
                  \/ task[u].error.name = "CircularDependency"
                  \/ /\ task[u].error.name = "UnknownDependency"
                     /\ MeetsUnknown(u)

\* x and z depend on each other and the resolution the loader started for x
\* has failed with the circular dependency error
C4_Witness ==
    /\ DependsOn("x", "z")
    /\ DependsOn("z", "x")
    /\ task["x"].status = "failed"
    /\ task["x"].error.name = "CircularDependency"
    /\ ctorCount["x"] = 0
    /\ ctorCount["z"] = 0

\* C5: a step that invokes the constructor of a wrapper is taken only when
\* the constructor of every wrapper it depends on, transitively, has been
\* invoked and has returned.
C5_DependenciesConstructedFirst ==
    [][\A w \in Units :
          ctorCount'[w] > ctorCount[w] =>
              \A v \in Dependencies(w) : ctorCount[v] > 0]_vars

\* a was constructed; it depends on x, which depends on z
C5_Witness ==
    /\ ctorCount["a"] = 1
    /\ DependsOn("a", "x")
    /\ DependsOn("x", "z")
    /\ ctorCount["z"] >= 1

\* C6: for a TRANSIENT wrapper the resolutions that have completed, the
\* invocations of its constructor and the distinct instances yielded are
\* equal in number, and the wrapper holds no cached instance.
C6_TransientNeverShared ==
    \A u \in Units :
        scopeOf[u] = "TRANSIENT" =>
            /\ ctorCount[u] = resolutions[u]
            /\ Cardinality(delivered[u]) = resolutions[u]
            /\ instance[u] = 0

\* the TRANSIENT wrapper x was resolved three times
C6_Witness ==
    /\ scopeOf["x"] = "TRANSIENT"
    /\ resolutions["x"] = 3
    /\ delivered["x"] = {1, 2, 3}

\* the modules the global scope holds: the ones bindGlobalScope added to
\* the imports of a module that does not declare them
DeclaredImports(m) ==
    IF m = "A" THEN {"B", "C"} ELSE IF m = "B" THEN {"D"} ELSE {}

GlobalScope(m) ==
    LET e == registry[ModuleIndex(registry, StaticToken(m))]
    IN  { e.imports[i].type : i \in 1..Len(e.imports) } \ DeclaredImports(m)

\* token t is in the catalog of m, exported by a module m imports directly,
\* or provided by the global scope
Visible(m, t) ==
    \/ \E u \in ProvidersOf(m) : u = t
    \/ \E n \in DeclaredImports(m) :
          \/ t \in exportsOf[n].tokens /\ t \in ProvidersOf(n)
          \/ \E k \in exportsOf[n].modules :
                t \in exportsOf[k].tokens /\ t \in ProvidersOf(k)
    \/ \E n \in GlobalScope(m) : t \in exportsOf[n].tokens /\ t \in ProvidersOf(n)

\* C7: a constructor argument is resolved only for a token that is in the
\* catalog of the requesting unit's module, exported by a direct import of
\* it, or provided by the global scope; a resolution fails with unknown
\* dependency exactly for a token that is none of these, whatever other
\* module provides it.
C7_DirectImportVisibility ==
    \A u \in Units :
        /\ \A k \in 1..Len(task[u].stack) :
              LET f == task[u].stack[k]
              IN  \A i \in 1..Len(depsOf[f.unit]) :
                      /\ i <= Len(f.args) =>
                            /\ Visible(Host(f.unit), depsOf[f.unit][i])
                            /\ f.args[i][1] = depsOf[f.unit][i]
                      /\ (i < f.i \/ k < Len(task[u].stack)) /\ i <= f.i =>
                            Visible(Host(f.unit), depsOf[f.unit][i])
        /\ task[u].error.name = "UnknownDependency" =>
              ~Visible(Host(task[u].error.unit), task[u].error.token)

\* z, a unit of D, asks for y, which only C exports; D does not import C and
\* C is not global; the resolution has failed with unknown dependency
C7_Witness ==
    /\ GlobalScope("D") = {}
    /\ task["z"].status = "failed"
    /\ task["z"].error =
          [name |-> "UnknownDependency", unit |-> "z", token |-> "y"]
    /\ \E u \in Units : task[u].status = "done" /\ depsOf[u] # <<>>

\* C8: when the first loadProvider or loadInjectable call begins, and at
\* every time a constructor has run, loadPrototype has allocated the
\* placeholder of every provider and injectable of every module.
C8_PrototypesBeforeInstances ==
    (\/ \E u \in Units : task[u].status # "idle" \/ ctorCount[u] > 0
     \/ loading \notin {"idle", "createPrototypes"})
        => prototypes = Units

\* the loadProvider calls have begun and no constructor has run yet
C8_Witness ==
    /\ loading = "createInstances"
    /\ prototypes = Units
    /\ \A u \in Providers : task[u].status = "running"
    /\ \A u \in Units : ctorCount[u] = 0

\* C9: once the resolution of a provider or an injectable has failed,
\* createInstancesOfDependencies is rejected; and no step, before or after a
\* failure, clears an instance that a resolution has set.
C9_FailureKeepsInstances ==
    /\ []((\E u \in Units : task[u].status = "failed") => loading = "rejected")
    /\ [][\A u \in Units : instance[u] # 0 => instance'[u] # 0]_vars

\* a resolution failed after the instance of another wrapper was set, and
\* that instance is still set
C9_Witness ==
    /\ loading = "rejected"
    /\ task["x"].status = "failed"
    /\ instance["y"] = 1
    /\ task["y"].status = "done"

(***************************************************************************)
(* Properties of calculateModulesDistance.                                 *)
(***************************************************************************)
\* the walk has reached the module at position i of the registry
Reached(i) == Includes(modulesStack, registry[i].token)

\* C11: a module other than the root that the depth-first walk has reached
\* keeps the distance it was given then; a later encounter through another
\* import path does not change it.
C11_FirstPathWins ==
    [][phase = "calculateModulesDistance" =>
          \A i \in 3..Len(registry) :
              Reached(i) => registry'[i].distance = registry[i].distance]_vars

\* the module at position j imports the module at position i
Imports(j, i) == Includes(registry[j].imports, registry[i].token)

\* the distance of an importer, the root counting as 0
ImporterDistance(j) == IF j = 2 THEN 0 ELSE registry[j].distance

\* C19: when calculateModulesDistance has completed, the distance of every
\* module other than the root that the walk reached is one greater than the
\* distance of a module that imports it, the root counting as distance 0.
C19_OneMoreThanAnImporter ==
    DistanceDone =>
        \A i \in 3..Len(registry) :
            Reached(i) =>
                \E j \in 2..Len(registry) :
                    /\ Reached(j)
                    /\ Imports(j, i)
                    /\ registry[i].distance = ImporterDistance(j) + 1

\* no module is entered twice by the walk, and the calls that are active are
\* calls for different modules
ExpandedOnce ==
    /\ \A k, l \in 1..Len(modulesStack) :
          modulesStack[k] = modulesStack[l] => k = l
    /\ \A k, l \in 1..Len(distStack) :
          distStack[k].mod = distStack[l].mod => k = l
    /\ \A k \in 1..Len(distStack) : Includes(modulesStack, distStack[k].mod)

\* C20: calculateModulesDistance returns on every resolved import graph,
\* cycles and cycles through the root included, and the imports of a module
\* are expanded at most once during the walk.
C20_DistanceWalkTerminates ==
    /\ [] ExpandedOnce
    /\ (phase = "calculateModulesDistance") ~> (phase = "bindGlobalScope")

\* the walk has returned on a graph with a cycle through the root, having
\* entered three modules
C20_Witness ==
    /\ phase = "bindGlobalScope"
    /\ Len(modulesStack) = 3
    /\ \E j \in 3..Len(registry) : Imports(j, 2)

(***************************************************************************)
(* Properties of the errors of discovery.                                  *)
(***************************************************************************)
\* the declarations of the calls that enclose the innermost active call, from
\* the root down: the traversal path to the importer
PathToTop == [k \in 1..(Len(stack) - 1) |-> stack[k].def]

\* the import list of a declaration: its static imports, then the imports of
\* the dynamic descriptor
MergedImports(d) ==
    IF d.kind = "dynamic" THEN importsMeta[d.type] \o dynImports
    ELSE reflectMetadata(d.type)

\* the loop of the innermost active call stands at an import of this kind
LoopAt(kind) ==
    /\ Scanning
    /\ stack # <<>>
    /\ Top.pc = "loop"
    /\ Top.idx <= Len(Top.modules)
    /\ Top.modules[Top.idx].kind = kind

\* C12: the loop over the import list (static imports, then the imports of
\* the dynamic descriptor) fails with undefined module at a position that is
\* undefined and with invalid module at one that is otherwise falsy; the
\* error carries the importing declaration, the index of the position and
\* the traversal path to the importer; and the scan takes no step after it,
\* so that no later position is visited or registered.
C12_ImportPositionErrors ==
    /\ [][/\ LoopAt("undefined") => error'.name = "UndefinedModuleException"
          /\ LoopAt("null") => error'.name = "InvalidModuleException"]_vars
    /\ [](error.name \in {"UndefinedModuleException", "InvalidModuleException"}
            => /\ phase = "failed"
               /\ stack # <<>>
               /\ Top.modules = MergedImports(Top.def)
               /\ Top.idx <= Len(Top.modules)
               /\ Top.modules[Top.idx].kind =
                     (IF error.name = "UndefinedModuleException"
                      THEN "undefined" ELSE "null")
               /\ error.index = Top.idx - 1
               /\ error.def = Top.def
               /\ error.scope = PathToTop
               /\ ~ENABLED Next)

\* the second position of the import list of the dynamic module of C, the
\* first one of the descriptor's own imports, is undefined
C12_Witness ==
    /\ error.name = "UndefinedModuleException"
    /\ error.def = DynamicModule("C")
    /\ error.index = 1
    /\ error.scope = << TypeDecl("A") >>
    /\ Len(importsMeta["C"]) = 1

\* C13: a declaration that, once a forward reference is resolved, is a class
\* marked as injectable, controller or exception filter makes insertModule
\* fail with invalid class as module, carrying the declaration and the
\* traversal path; the call leaves the registry as it was, no entity of that
\* class is ever registered, and its imports are not traversed.
C13_InvalidClassAsModule ==
    /\ [][error.name = "none" /\ error'.name = "InvalidClassModuleException"
            => registry' = registry]_vars
    /\ [](\A i \in 1..Len(registry) : registry[i].metatype # ServiceType)
    /\ [](error.name = "InvalidClassModuleException"
            => /\ phase = "failed"
               /\ stack # <<>>
               /\ Top.pc = "enter"
               /\ error.def = Top.decl
               /\ Top.decl \in {TypeDecl(ServiceType), ForwardRef(ServiceType)}
               /\ error.scope = PathToTop
               /\ ~ENABLED Next)

\* a forward reference to a marked class, offered two levels below the root
C13_Witness ==
    /\ error.name = "InvalidClassModuleException"
    /\ error.def = ForwardRef(ServiceType)
    /\ Len(error.scope) = 2
    /\ Len(registry) = 3

FailsNow(u) == task[u].status # "failed" /\ task'[u].status = "failed"

\* C16: the error createInstancesOfDependencies is rejected with is the
\* error of the resolution that fails first in time: the first failure sets
\* it, whatever the module of the unit, and no later failure changes it.
C16_FirstErrorInTime ==
    /\ [][\A u \in Units :
            FailsNow(u) =>
                IF \E v \in Units : task[v].status = "failed"
                THEN loadError' = loadError
                ELSE loadError' = task'[u].error /\ loading' = "rejected"]_vars
    /\ [][loading = "rejected" => loadError' = loadError]_vars

\* a unit of D and a unit of A have failed with different errors
C16_Witness ==
    /\ task["x"].status = "failed"
    /\ task["a"].status = "failed"
    /\ task["x"].error # task["a"].error
    /\ loadError = task["a"].error

(***************************************************************************)
(* Properties of the order of registration and of the traversal pass.      *)
(***************************************************************************)
CoreToken == Compile(TypeDecl(CoreType))
RootToken == Compile(TypeDecl(RootType))

\* C17: the internal core module is registered before the discovery of the
\* root begins; from then on the first entry of the registry is the core
\* module and, once the root is inserted, the second is the root module;
\* calculateModulesDistance starts its walk at the root, never enters the
\* core module and never gives it a distance.
C17_CoreFirstRootSecond ==
    /\ Len(registry) >= 1 => registry[1].token = CoreToken
    /\ Len(registry) >= 2 => registry[2].token = RootToken
    /\ phase \notin {"start", "registerCoreModule"} =>
          /\ Len(registry) >= 1
          /\ coreRef = CoreToken
    /\ phase \in {"scanModulesForDependencies", "calculateModulesDistance",
                  "bindGlobalScope", "scanned"} => Len(registry) >= 2
    /\ phase = "calculateModulesDistance" =>
          /\ modulesStack # <<>>
          /\ modulesStack[1] = RootToken
          /\ distStack # <<>> => distStack[1].mod = RootToken
    /\ ~Includes(modulesStack, CoreToken)
    /\ Len(registry) >= 1 => registry[1].distance = 0

\* the walk has returned on a registry of four modules and has given the
\* third one its distance
C17_Witness ==
    /\ phase = "bindGlobalScope"
    /\ Len(registry) = 4
    /\ registry[3].distance = 1
    /\ Len(modulesStack) = 3

\* C18: within a traversal pass scanForModules is entered at most once with
\* a given declaration, whatever its form and however many import lists hold
\* it.
C18_TraversedAtMostOnce ==
    \A k, l \in 1..Len(enterLog) : enterLog[k] = enterLog[l] => k = l

(***************************************************************************)
(* Properties of the order inside createInstances.                         *)
(***************************************************************************)
\* loadInjectable has been called for injectable u
InjectableLoaded(u) == task[u].status # "idle"

\* C22: loadInjectable is called for an injectable of module M only after
\* loadProvider has completed for every provider of M; once a provider of M
\* has failed no injectable of M is loaded, then or later. The providers of
\* the other modules do not hold the injectables of M back.
C22_ProvidersBeforeInjectables ==
    /\ \A u \in Injectables :
          /\ InjectableLoaded(u) =>
                \A p \in ProvidersOf(Host(u)) : task[p].status = "done"
          /\ (\E p \in ProvidersOf(Host(u)) : task[p].status = "failed") =>
                ~InjectableLoaded(u)
    /\ [][\A u \in Injectables :
            ~InjectableLoaded(u) /\ InjectableLoaded(u)' =>
                \A p \in Providers :
                    IF Host(p) = Host(u)
                    THEN task[p].status = "done" /\ task'[p] = task[p]
                    ELSE task'[p] = task[p]]_vars

\* the injectable of A is being resolved after the provider of A was built,
\* while one provider of D has failed and the other is still being resolved
C22_Witness ==
    /\ ~preview
    /\ task["g"].status = "running"
    /\ ctorCount["a"] = 1
    /\ task["x"].status = "failed"
    /\ task["z"].status = "running"

(***************************************************************************)
(* Properties of the dependency pass.                                      *)
(***************************************************************************)
\* the list reflectImports reads for the module at position i of the registry
ReflectedImports(i) ==
    reflectMetadata(registry[i].metatype)
        \o getDynamicMetadataByToken(registry[i].token)

DiscoveryOver ==
    phase \in {"scanModulesForDependencies", "calculateModulesDistance",
               "bindGlobalScope", "scanned"}

\* C24: an import position that is undefined is reported by the discovery
\* pass, as undefined module, while scanForModules is active; the dependency
\* pass never fails, so the circular dependency error of insertImport is
\* never raised: when discovery is over, no import list that reflectImports
\* reads, static and dynamic part, holds an undefined position.
C24_CircularDependencyNeverReached ==
    /\ [](error.name # "CircularDependencyException")
    /\ [](DiscoveryOver =>
            /\ error = NoError
            /\ \A i \in 1..Len(registry) :
                  \A k \in 1..Len(ReflectedImports(i)) :
                      ReflectedImports(i)[k].kind # "undefined")
    /\ [](error.name = "UndefinedModuleException" =>
            stack # <<>> /\ depIdx = 0)
    /\ [][phase = "scanModulesForDependencies" => phase' # "failed"]_vars

\* the root imports B through a forward reference and B holds an undefined
\* position behind a module that was registered: discovery reports it
C24_Witness ==
    /\ error.name = "UndefinedModuleException"
    /\ error.def = TypeDecl("B")
    /\ error.index = 1
    /\ error.scope = << TypeDecl("A") >>
    /\ importsMeta["A"] = << ForwardRef("B") >>
    /\ Len(registry) = 4
    /\ depIdx = 0

(***************************************************************************)
(* Properties of initialize and of createApplicationContext.               *)
(***************************************************************************)
\* the loader has not touched any wrapper
NothingLoaded ==
    /\ prototypes = {}
    /\ \A u \in Units :
          /\ task[u] = IdleTask
          /\ instance[u] = 0
          /\ ctorCount[u] = 0
          /\ resolutions[u] = 0

\* C21: the loader is started only when scan has returned without an error,
\* and applyApplicationProviders is invoked only when
\* createInstancesOfDependencies has been fulfilled: as long as scan has not
\* returned, and for good once it has failed, no placeholder is allocated
\* and no unit is resolved; once the loader has rejected, the factory takes
\* no further step.
C21_InitializeInOrder ==
    /\ loading # "idle" => phase = "scanned" /\ error = NoError
    /\ phase # "scanned" => NothingLoaded /\ loading = "idle"
    /\ boot # "initialize" =>
          /\ phase = "scanned"
          /\ loading = "resolved"
          /\ loadError = NoLoadError
          /\ \A u \in LoadedUnits : task[u].status = "done"
    /\ (phase = "failed" \/ loading = "rejected") =>
          /\ boot = "initialize"
          /\ root = NoToken
          /\ ~ENABLED ApplyApplicationProviders
          /\ ~ENABLED CreateApplicationContext

\* scan has returned on a graph in which A does not import C, the provider
\* of A has failed on the token y and every call of the loader is settled
C21_Witness ==
    /\ phase = "scanned"
    /\ Len(registry) >= 3
    /\ loading = "rejected"
    /\ loadError = [name |-> "UnknownDependency", unit |-> "a", token |-> "y"]
    /\ prototypes # {}
    /\ \A u \in LoadedUnits : task[u].status \in {"failed", "idle"}

\* C23: when initialize has succeeded, the module createApplicationContext
\* takes as root and hands to the application context is the first entry of
\* the registry: the internal core module that registerCoreModule has
\* registered, not the entity of the root declaration, which is the second
\* entry.
C23_ContextRootIsCoreModule ==
    boot = "createApplicationContext" =>
        /\ Len(registry) >= 2
        /\ root = registry[1].token
        /\ root = coreRef
        /\ root.type = CoreType
        /\ registry[2].token = RootToken
        /\ root # registry[2].token

\* the context is built after a bootstrap that registered four modules and
\* constructed the injectable of the root module
C23_Witness ==
    /\ boot = "createApplicationContext"
    /\ root # NoToken
    /\ ~preview
    /\ Len(registry) = 4
    /\ ctorCount["g"] = 1

====
